---- MODULE Spec2Model ----
(***************************************************************************)
(* Model of the heatmap ETL commands (rdlf0/heatmap):                      *)
(*   backfill      src/cmd/backfill.go      Jira issue -> merged GitHub PR *)
(*   collectDiffs  src/cmd/collectDiffs.go  PR -> changed files            *)
(* Both commands are sequential batch jobs over a MongoDB database.  A run *)
(* is modelled step by step: one step for the start of the command (the    *)
(* reads it does before its loop), one step per loop iteration, one step   *)
(* for everything after the loop.                                          *)
(*                                                                         *)
(* Strings are sequences of tokens.  The separators the code splits on     *)
(* ("/pull", "github.com/", "/") are single tokens, every other token is a *)
(* piece of text without separators.  A collection is a bag of documents   *)
(* (MongoDB gives every inserted document a fresh _id, so equal documents  *)
(* may be stored several times).                                           *)
(***************************************************************************)
EXTENDS Integers, Sequences, FiniteSets, Bags, TLC

\* ------------------------------------------------------------ bounds
\* Longest issue list the search call returns in the model.
MaxBugs == 2

\* ------------------------------------------------------------ strings
RECURSIVE Split(_, _)
\* strings.Split(s, sep) for a separator that is one token.
Split(s, sep) ==
    IF \E i \in 1..Len(s) : s[i] = sep
    THEN LET i == CHOOSE k \in 1..Len(s) :
                     s[k] = sep /\ \A j \in 1..(k - 1) : s[j] # sep
         IN  <<SubSeq(s, 1, i - 1)>> \o Split(SubSeq(s, i + 1, Len(s)), sep)
    ELSE <<s>>

Digits == {"0", "1", "2", "3", "4", "5", "6", "7", "8", "9"}

DigitVal(c) ==
    CASE c = "0" -> 0 [] c = "1" -> 1 [] c = "2" -> 2 [] c = "3" -> 3
      [] c = "4" -> 4 [] c = "5" -> 5 [] c = "6" -> 6 [] c = "7" -> 7
      [] c = "8" -> 8 [] c = "9" -> 9

RECURSIVE DecimalValue(_)
DecimalValue(cs) ==
    IF cs = <<>> THEN 0
    ELSE DecimalValue(SubSeq(cs, 1, Len(cs) - 1)) * 10 + DigitVal(cs[Len(cs)])

\* strconv.Atoi on a sequence of characters: [err, n]; n is 0 on error.
\* An optional sign, then one digit at least.
Atoi(cs) ==
    LET signed == cs # <<>> /\ cs[1] \in {"+", "-"}
        ds == IF signed THEN Tail(cs) ELSE cs
    IN  IF ds # <<>> /\ \A i \in 1..Len(ds) : ds[i] \in Digits
        THEN [err |-> FALSE,
              n |-> IF signed /\ cs[1] = "-" THEN 0 - DecimalValue(ds)
                    ELSE DecimalValue(ds)]
        ELSE [err |-> TRUE, n |-> 0]

\* ------------------------------------------------------------ bags
\* The bag holding one copy of F(x) for every x of the finite set S.
BagOfImage(S, F(_)) ==
    [d \in {F(x) : x \in S} |-> Cardinality({x \in S : F(x) = d})]

\* One element per stored copy of a document of the bag B.
Copies(B) == UNION {{<<d, k>> : k \in 1..B[d]} : d \in BagToSet(B)}

\* ------------------------------------------------------------ documents
\* A BSON value of the field "repo": an embedded document {owner, name}
\* (what backfill.go writes) or a string "owner/name" (what the earlier
\* backfill wrote and what collectDiffs.go decodes).
RepoDocument(o, n) == [bson |-> "document", owner |-> o, name |-> n, str |-> <<>>]
RepoString(s) == [bson |-> "string", owner |-> <<>>, name |-> <<>>, str |-> s]

\* jiraProject: the default of the --project flag.
jiraProject == "Memberships"

mongoMapping(issueID, repo, prID) ==
    [project |-> jiraProject, issue_id |-> issueID, repo |-> repo, pr_id |-> prID]

prChanges(repo, prID, changes) ==
    [repo |-> repo, pr_id |-> prID, changes |-> changes]

\* ------------------------------------------------------------ upstream
\* The issue ids of the tracker.
IssueIDs == {1001, 1002}

PullURL(owner, name, num) ==
    <<"https://", "github.com/", owner, "/", name, "/pull", "/", num>>

jiraPR(id, status, url) == [id |-> id, status |-> status, url |-> url]

PRw42 == jiraPR(<<"#", "4", "2">>, "MERGED", PullURL("acme", "widgets", "42"))
PRg42 == jiraPR(<<"#", "4", "2">>, "MERGED", PullURL("acme", "gadgets", "42"))
PRw43 == jiraPR(<<"#", "4", "3">>, "MERGED", PullURL("acme", "widgets", "43"))
PRw77 == jiraPR(<<"#", "7", "7">>, "MERGED", PullURL("acme", "widgets", "77"))
PRw43open == jiraPR(<<"#", "4", "3">>, "OPEN", PullURL("acme", "widgets", "43"))
\* A merged PR whose url is not a github.com pull-request url.
PRbadURL == jiraPR(<<"#", "7">>, "MERGED", <<"https://", "example.org", "/", "x">>)

\* What the dev-status endpoint answers for an issue: a transport or decode
\* failure, or a decoded devStatusResponse whose detail is a list of PR lists.
\* A merged PR whose tracker id has no number after its prefix.
PRbadID == jiraPR(<<"#", "x">>, "MERGED", PullURL("acme", "widgets", "44"))
\* A merged PR whose url has no owner: https://github.com//widgets/pull/45.
PRnoOwner ==
    jiraPR(<<"#", "4", "5">>, "MERGED",
           <<"https://", "github.com/", "/", "widgets", "/pull", "/", "45">>)

DevFailure == [failed |-> TRUE, detail |-> <<>>]
DevResponse(detail) == [failed |-> FALSE, detail |-> detail]

\* The answer for an issue without linked PRs.
NoLinkedPRs == DevResponse(<< <<>> >>)

DevAnswers ==
    { DevFailure,
      DevResponse(<<>>),
      NoLinkedPRs,
      DevResponse(<< <<PRg42, PRw43open>> >>),
      DevResponse(<< <<PRg42, PRw43>> >>),
      DevResponse(<< <<PRbadURL>> >>) }

\* Answers with malformed PR data, for the specification SpecEdge.
EdgeAnswers ==
    { DevFailure,
      NoLinkedPRs,
      DevResponse(<< <<PRbadID>> >>),
      DevResponse(<< <<PRnoOwner>> >>) }

\* The issue lists the search call can return (an id may repeat).
IssueLists == UNION {[1..n -> IssueIDs] : n \in 0..MaxBugs}

\* The issue is in the issue list.  The answer for an issue that is not is
\* never asked for: the model keeps it at NoLinkedPRs.
Listed(i, list) == \E n \in 1..Len(list) : list[n] = i

\* PerPage of the ListOptions of collectPRChanges.
PerPage == 100

\* The n-th changed file of a PR as the PR-files endpoint reports it.
CommitFile(n) ==
    [filename |-> n, status |-> "modified",
     additions |-> 3, deletions |-> 1, changes |-> 4]

\* All changed files of a PR, in the order of the PR-files endpoint: PR 42
\* changes one file, PR 77 one file more than a page holds.
GitHubFiles(prID) ==
    IF prID = 42 THEN <<CommitFile(1)>>
    ELSE IF prID = 77 THEN [n \in 1..(PerPage + 1) |-> CommitFile(n)]
    ELSE <<>>

\* ------------------------------------------------------------ state
VARIABLES
    jiraCollName,          \* config mongo.collections.jira
    issues,                \* upstream: the issue list of the search call
    devStatus,             \* upstream: issue id -> dev-status answer
    db,                    \* collection name -> bag of documents
    pc,                    \* "idle", "backfill", "collectDiffs"
    cmd,                   \* the command of the last run, "none" before it
    exit,                  \* how the last command ended ("running" meanwhile)
    bugs, idx,             \* backfill: the issue list and the loop position
    alreadyMapped,         \* backfill: issue ids read from the collection
    newMappingsByIssueID,  \* backfill: issue id -> PR list
    PRs,                   \* collectDiffs: the pairs still to fetch (a bag)
    prChs,                 \* collectDiffs: the prChanges built so far (a bag)
    requests,              \* dev-status requests of the run: <<issue, answer>>
    inserts,               \* InsertMany calls of the run: [coll, docs]
    dbAtStart,             \* db when the run started
    lastBackfill,          \* exit of the last backfill run, "stale" once
                           \* the upstream changed after it
    repeatRun              \* the run is a backfill run that follows a
                           \* backfill run with the same upstream answers

vars == <<jiraCollName, issues, devStatus, db, pc, cmd, exit, bugs, idx,
          alreadyMapped, newMappingsByIssueID, PRs, prChs, requests,
          inserts, dbAtStart, lastBackfill, repeatRun>>

CollNames == {"jira", "github", "mappings"}

\* Records of the earlier backfill (src/unnamed/part_000): repo is a string,
\* the collection is "jira".
LegacyRepo(pr) == Split(Split(pr.url, "/pull")[1], "github.com/")[2]
LegacyMapping(issueID, pr) ==
    mongoMapping(issueID, RepoString(LegacyRepo(pr)), Atoi(Tail(pr.id)).n)

LegacyStores ==
    { EmptyBag,
      SetToBag({LegacyMapping(1001, PRw42)}),
      SetToBag({LegacyMapping(1001, PRw42), LegacyMapping(1002, PRw42)}) }

\* Stores of the specification SpecEdge: a PR with more files than a page.
EdgeStores ==
    { EmptyBag,
      SetToBag({LegacyMapping(1001, PRw77)}),
      SetToBag({LegacyMapping(1001, PRw42), LegacyMapping(1002, PRw77)}) }

\* The state before the first command: a configuration, the answers of the
\* tracker (drawn from answers) and a "jira" collection (drawn from stores).
InitWith(answers, stores) ==
    /\ jiraCollName \in {"jira", "mappings"}
    /\ issues \in IssueLists
    /\ devStatus \in [IssueIDs -> answers]
    /\ \A i \in IssueIDs : Listed(i, issues) \/ devStatus[i] = NoLinkedPRs
    /\ \E legacy \in stores :
         db = [c \in CollNames |-> IF c = "jira" THEN legacy ELSE EmptyBag]
    /\ pc = "idle"
    /\ cmd = "none"
    /\ exit = "none"
    /\ bugs = <<>>
    /\ idx = 1
    /\ alreadyMapped = {}
    /\ newMappingsByIssueID = [k \in {} |-> <<>>]
    /\ PRs = EmptyBag
    /\ prChs = EmptyBag
    /\ requests = <<>>
    /\ inserts = <<>>
    /\ dbAtStart = db
    /\ lastBackfill = "none"
    /\ repeatRun = FALSE

Init == InitWith(DevAnswers, LegacyStores)

InitEdge == InitWith(EdgeAnswers, EdgeStores)

\* ------------------------------------------------------------ backfill
\* Mutant of getAlreadyMappedIssueIDs: the scan result is dropped.
getAlreadyMappedIssueIDs_Empty(collection) == {}

\* getAlreadyMappedIssueIDs: the issue ids of the documents of the collection.
getAlreadyMappedIssueIDs(collection) ==
    {d.issue_id : d \in BagToSet(collection)}

\* Mutant of NotYetMapped: every listed issue is looked up.
NotYetMapped_Always(b, mapped) == TRUE

\* The test of the loop of backfill: the issue is not in alreadyMapped.
NotYetMapped(b, mapped) == b \notin mapped

\* findDevStatus on the answer of the endpoint.  panic: client.Do or Decode
\* failed, or Detail[0] does not exist.  err: "Dev status not found".
findDevStatus(answer) ==
    IF answer.failed \/ Len(answer.detail) = 0
    THEN [panic |-> TRUE, err |-> FALSE, prs |-> <<>>]
    ELSE IF Len(answer.detail[1]) = 0
    THEN [panic |-> FALSE, err |-> TRUE, prs |-> <<>>]
    ELSE [panic |-> FALSE, err |-> FALSE, prs |-> answer.detail[1]]

\* Mutant of IsMerged: only declined PRs are filtered out.
IsMerged_NotDeclined(pr) == pr.status # "DECLINED"

\* The filter of convertJiraMappingsToMongoMappings.
IsMerged(pr) == pr.status = "MERGED"

\* The pieces convertJiraMappingsToMongoMappings takes from a PR.
RepoSplit(pr) == Split(Split(pr.url, "/pull")[1], "github.com/")
RepoParts(pr) == Split(RepoSplit(pr)[2], "/")

\* An index or a slice bound of the conversion is out of range.
ConvertPanics(pr) ==
    \/ Len(RepoSplit(pr)) < 2
    \/ Len(RepoParts(pr)) < 2
    \/ Len(pr.id) < 1

ConvertPR(k, pr) ==
    mongoMapping(k, RepoDocument(RepoParts(pr)[1], RepoParts(pr)[2]),
                 Atoi(Tail(pr.id)).n)

\* The entries of the map that pass the filter: <<issue id, position>>.
MergedEntries(jiraMappings) ==
    UNION {{<<k, i>> : i \in {j \in 1..Len(jiraMappings[k]) :
                                 IsMerged(jiraMappings[k][j])}} :
           k \in DOMAIN jiraMappings}

convertJiraMappingsToMongoMappings(jiraMappings) ==
    LET merged == MergedEntries(jiraMappings)
        PROfEntry(e) == jiraMappings[e[1]][e[2]]
        DocOfEntry(e) == ConvertPR(e[1], PROfEntry(e))
    IN  IF \E e \in merged : ConvertPanics(PROfEntry(e))
        THEN [panic |-> TRUE, result |-> EmptyBag]
        ELSE [panic |-> FALSE, result |-> BagOfImage(merged, DocOfEntry)]

\* What every step that starts a command sets.
StartRun ==
    /\ requests' = <<>>
    /\ inserts' = <<>>
    /\ dbAtStart' = db

NoBackfillState ==
    /\ bugs' = <<>>
    /\ idx' = 1
    /\ alreadyMapped' = {}
    /\ newMappingsByIssueID' = [k \in {} |-> <<>>]

NoCollectDiffsState ==
    /\ PRs' = EmptyBag
    /\ prChs' = EmptyBag

\* backfill, up to the loop: collectBugs panics (transport or decode).
BackfillSearchFails ==
    /\ pc = "idle"
    /\ StartRun /\ NoBackfillState /\ NoCollectDiffsState
    /\ cmd' = "backfill"
    /\ exit' = "panic:search"
    /\ repeatRun' = FALSE
    /\ UNCHANGED <<jiraCollName, issues, devStatus, db, pc, lastBackfill>>

\* backfill, up to the loop: connectToMongo or the Find fails (log.Fatal).
BackfillStoreFails ==
    /\ pc = "idle"
    /\ StartRun /\ NoBackfillState /\ NoCollectDiffsState
    /\ cmd' = "backfill"
    /\ exit' = "fatal:store"
    /\ repeatRun' = FALSE
    /\ UNCHANGED <<jiraCollName, issues, devStatus, db, pc, lastBackfill>>

\* backfill, up to the loop: the issue list and alreadyMapped are loaded.
BackfillStart ==
    /\ pc = "idle"
    /\ StartRun /\ NoCollectDiffsState
    /\ pc' = "backfill"
    /\ cmd' = "backfill"
    /\ exit' = "running"
    /\ bugs' = issues
    /\ idx' = 1
    /\ alreadyMapped' = getAlreadyMappedIssueIDs(db[jiraCollName])
    /\ newMappingsByIssueID' = [k \in {} |-> <<>>]
    /\ repeatRun' = (lastBackfill \in {"ok", "panic:devstatus", "panic:convert"})
    /\ UNCHANGED <<jiraCollName, issues, devStatus, db, lastBackfill>>

\* One iteration of the loop of backfill.
BackfillLookup ==
    /\ pc = "backfill"
    /\ idx <= Len(bugs)
    /\ LET b == bugs[idx]
           ds == findDevStatus(devStatus[b])
       IN  IF ~NotYetMapped(b, alreadyMapped)
           THEN /\ idx' = idx + 1
                /\ UNCHANGED <<pc, exit, newMappingsByIssueID, requests,
                               lastBackfill>>
           ELSE /\ requests' = Append(requests, <<b, devStatus[b]>>)
                /\ IF ds.panic
                   THEN /\ pc' = "idle"
                        /\ exit' = "panic:devstatus"
                        /\ lastBackfill' = "panic:devstatus"
                        /\ UNCHANGED <<idx, newMappingsByIssueID>>
                   ELSE /\ idx' = idx + 1
                        /\ newMappingsByIssueID' =
                             IF ds.err THEN newMappingsByIssueID
                             ELSE [k \in DOMAIN newMappingsByIssueID \cup {b} |->
                                     IF k = b THEN ds.prs
                                     ELSE newMappingsByIssueID[k]]
                        /\ UNCHANGED <<pc, exit, lastBackfill>>
    /\ UNCHANGED <<jiraCollName, issues, devStatus, db, cmd, bugs,
                   alreadyMapped, PRs, prChs, inserts, dbAtStart, repeatRun>>

\* backfill after the loop: the two early returns, the conversion and
\* writeItemsToMongo (InsertMany succeeds or fails as a whole).
BackfillFinish ==
    /\ pc = "backfill"
    /\ idx > Len(bugs)
    /\ pc' = "idle"
    /\ LET conv == convertJiraMappingsToMongoMappings(newMappingsByIssueID)
       IN  IF DOMAIN newMappingsByIssueID = {}
           THEN exit' = "ok" /\ UNCHANGED <<db, inserts>>
           ELSE IF conv.panic
           THEN exit' = "panic:convert" /\ UNCHANGED <<db, inserts>>
           ELSE IF conv.result = EmptyBag
           THEN exit' = "ok" /\ UNCHANGED <<db, inserts>>
           ELSE /\ inserts' = Append(inserts, [coll |-> jiraCollName,
                                               docs |-> conv.result])
                /\ \E written \in BOOLEAN :
                     IF written
                     THEN /\ db' = [db EXCEPT ![jiraCollName] = @ (+) conv.result]
                          /\ exit' = "ok"
                     ELSE /\ db' = db
                          /\ exit' = "panic:insert"
    /\ lastBackfill' = exit'
    /\ UNCHANGED <<jiraCollName, issues, devStatus, cmd, bugs, idx,
                   alreadyMapped, newMappingsByIssueID, PRs, prChs, requests,
                   dbAtStart, repeatRun>>

\* ------------------------------------------------------------ collectDiffs
\* The aggregation of getNotAnalyzedPRs: $lookup from "github" on pr_id,
\* $match on an empty lookup result.  One entry per stored copy.
Unmatched(collection, github) ==
    {c \in Copies(collection) :
        ~\E g \in BagToSet(github) : g.pr_id = c[1].pr_id}

\* cur.Decode into PR{Repo string, PRID int}: a repo that is not a BSON
\* string does not decode.
DecodeFails(doc) == doc.repo.bson # "string"

PR(doc) == [repo |-> doc.repo.str, pr_id |-> doc.pr_id]

getNotAnalyzedPRs(collection, github) ==
    LET found == Unmatched(collection, github)
        PROfCopy(c) == PR(c[1])
    IN  IF \E c \in found : DecodeFails(c[1])
        THEN [fatal |-> TRUE, prs |-> EmptyBag]
        ELSE [fatal |-> FALSE, prs |-> BagOfImage(found, PROfCopy)]

\* The change collectPRChanges builds from a file.
change(f) ==
    [file |-> f.filename, status |-> f.status,
     diff |-> [additions |-> f.additions, deletions |-> f.deletions,
               changes |-> f.changes]]

\* client.PullRequests.ListFiles with PerPage 100, called once: the first
\* page of the files.
FirstPage(files) ==
    SubSeq(files, 1, IF Len(files) < PerPage THEN Len(files) ELSE PerPage)

\* The one ListFiles call and the loop that copies each file into a change.
ListFiles(prID) ==
    LET files == FirstPage(GitHubFiles(prID))
    IN  [i \in 1..Len(files) |-> change(files[i])]

\* The collection collectDiffs reads the PR references from: the literal
\* name in Collection("jira"), not the configured one.
jiraColl == "jira"

\* collectDiffs: connectToMongo fails (log.Fatal).
CollectDiffsStoreFails ==
    /\ pc = "idle"
    /\ StartRun /\ NoBackfillState /\ NoCollectDiffsState
    /\ cmd' = "collectDiffs"
    /\ exit' = "fatal:store"
    /\ repeatRun' = FALSE
    /\ UNCHANGED <<jiraCollName, issues, devStatus, db, pc, lastBackfill>>

\* Mutant of CollectDiffsStart: the return on an empty result is missing.
CollectDiffsStart_NoEarlyReturn ==
    /\ pc = "idle"
    /\ StartRun /\ NoBackfillState
    /\ cmd' = "collectDiffs"
    /\ LET sel == getNotAnalyzedPRs(db[jiraColl], db["github"])
       IN  /\ PRs' = sel.prs
           /\ exit' = IF sel.fatal THEN "fatal:decode" ELSE "running"
           /\ pc' = IF exit' = "running" THEN "collectDiffs" ELSE "idle"
    /\ prChs' = EmptyBag
    /\ repeatRun' = FALSE
    /\ UNCHANGED <<jiraCollName, issues, devStatus, db, lastBackfill>>

\* collectDiffs up to the loop of collectPRChanges.
CollectDiffsStart ==
    /\ pc = "idle"
    /\ StartRun /\ NoBackfillState
    /\ cmd' = "collectDiffs"
    /\ LET sel == getNotAnalyzedPRs(db[jiraColl], db["github"])
       IN  /\ PRs' = sel.prs
           /\ exit' = IF sel.fatal THEN "fatal:decode"
                      ELSE IF sel.prs = EmptyBag THEN "ok" ELSE "running"
           /\ pc' = IF exit' = "running" THEN "collectDiffs" ELSE "idle"
    /\ prChs' = EmptyBag
    /\ repeatRun' = FALSE
    /\ UNCHANGED <<jiraCollName, issues, devStatus, db, lastBackfill>>

\* Mutant of CollectDiffsFetch: on a failed fetch the changes collected so
\* far are written before the run aborts.
CollectDiffsFetch_PartialWrite ==
    /\ pc = "collectDiffs"
    /\ PRs # EmptyBag
    /\ \E p \in BagToSet(PRs), fetched \in BOOLEAN :
         IF Len(Split(p.repo, "/")) < 2 \/ ~fetched
         THEN /\ pc' = "idle"
              /\ exit' = "panic:fetch"
              /\ db' = [db EXCEPT !["github"] = @ (+) prChs]
              /\ UNCHANGED <<PRs, prChs>>
         ELSE /\ PRs' = PRs (-) SetToBag({p})
              /\ prChs' = prChs (+) SetToBag({prChanges(p.repo, p.pr_id,
                                                        ListFiles(p.pr_id))})
              /\ UNCHANGED <<pc, exit, db>>
    /\ UNCHANGED <<jiraCollName, issues, devStatus, cmd, bugs, idx,
                   alreadyMapped, newMappingsByIssueID, requests, inserts,
                   dbAtStart, lastBackfill, repeatRun>>

\* One iteration of the loop of collectPRChanges.
CollectDiffsFetch ==
    /\ pc = "collectDiffs"
    /\ PRs # EmptyBag
    /\ \E p \in BagToSet(PRs), fetched \in BOOLEAN :
         IF Len(Split(p.repo, "/")) < 2 \/ ~fetched
         THEN /\ pc' = "idle"
              /\ exit' = "panic:fetch"
              /\ UNCHANGED <<PRs, prChs>>
         ELSE /\ PRs' = PRs (-) SetToBag({p})
              /\ prChs' = prChs (+) SetToBag({prChanges(p.repo, p.pr_id,
                                                        ListFiles(p.pr_id))})
              /\ UNCHANGED <<pc, exit>>
    /\ UNCHANGED <<jiraCollName, issues, devStatus, db, cmd, bugs, idx,
                   alreadyMapped, newMappingsByIssueID, requests, inserts,
                   dbAtStart, lastBackfill, repeatRun>>

\* collectDiffs after collectPRChanges: writeItemsToMongo into "github".
\* InsertMany refuses an empty list of documents.
CollectDiffsFinish ==
    /\ pc = "collectDiffs"
    /\ PRs = EmptyBag
    /\ pc' = "idle"
    /\ inserts' = Append(inserts, [coll |-> "github", docs |-> prChs])
    /\ \E written \in BOOLEAN :
         IF written /\ prChs # EmptyBag
         THEN /\ db' = [db EXCEPT !["github"] = @ (+) prChs]
              /\ exit' = "ok"
         ELSE /\ db' = db
              /\ exit' = "panic:insert"
    /\ UNCHANGED <<jiraCollName, issues, devStatus, cmd, bugs, idx,
                   alreadyMapped, newMappingsByIssueID, PRs, prChs, requests,
                   dbAtStart, lastBackfill, repeatRun>>

\* ------------------------------------------------------------ environment
\* Between two runs the tracker changes its answer for one issue.
UpstreamChangeIn(answers) ==
    /\ pc = "idle"
    /\ \E i \in IssueIDs, a \in answers :
         /\ Listed(i, issues)
         /\ a # devStatus[i]
         /\ devStatus' = [devStatus EXCEPT ![i] = a]
    /\ lastBackfill' = IF lastBackfill = "none" THEN "none" ELSE "stale"
    /\ StartRun /\ NoBackfillState /\ NoCollectDiffsState
    /\ cmd' = "none"
    /\ exit' = "none"
    /\ repeatRun' = FALSE
    /\ UNCHANGED <<jiraCollName, issues, db, pc>>

UpstreamChange == UpstreamChangeIn(DevAnswers)

UpstreamChangeEdge == UpstreamChangeIn(EdgeAnswers)

Next ==
    \/ BackfillSearchFails
    \/ BackfillStoreFails
    \/ BackfillStart
    \/ BackfillLookup
    \/ BackfillFinish
    \/ CollectDiffsStoreFails
    \/ CollectDiffsStart
    \/ CollectDiffsFetch
    \/ CollectDiffsFinish
    \/ UpstreamChange

Spec == Init /\ [][Next]_vars

\* The same commands over malformed PR data and a PR of more than a page.
NextEdge ==
    \/ BackfillSearchFails
    \/ BackfillStoreFails
    \/ BackfillStart
    \/ BackfillLookup
    \/ BackfillFinish
    \/ CollectDiffsStoreFails
    \/ CollectDiffsStart
    \/ CollectDiffsFetch
    \/ CollectDiffsFinish
    \/ UpstreamChangeEdge

SpecEdge == InitEdge /\ [][NextEdge]_vars

\* ------------------------------------------------------------ claims
\* The Mapping Store of backfill is the configured collection; the stores of
\* collectDiffs are the collections it names.
MappingStore(d) == d[jiraCollName]

\* The PR list an answer of the dev-status endpoint hands to the run.
AnsweredPRs(answer) ==
    IF answer.failed \/ answer.detail = <<>> THEN <<>> ELSE answer.detail[1]

\* The answer the run got for an issue it asked for.
AnswerFor(k) ==
    requests[CHOOSE n \in 1..Len(requests) : requests[n][1] = k][2]

\* <<issue, position>> of every MERGED LinkedPR the run was answered.
MergedReturned ==
    UNION {{<<requests[n][1], i>> :
              i \in {j \in 1..Len(AnsweredPRs(requests[n][2])) :
                        AnsweredPRs(requests[n][2])[j].status = "MERGED"}} :
           n \in 1..Len(requests)}

RecordOfReturned(e) == ConvertPR(e[1], AnsweredPRs(AnswerFor(e[1]))[e[2]])

\* A backfill run that got through its loop and its conversion.
BackfillDone ==
    cmd = "backfill" /\ pc = "idle" /\ exit \in {"ok", "panic:insert"}

\* The documents of the InsertMany calls of the run.
Inserted == IF inserts = <<>> THEN EmptyBag ELSE inserts[1].docs

\* C1: a backfill run that follows a backfill run with the same upstream
\* answers inserts nothing: no InsertMany call, the database is the one the
\* run started with.
C1_Idempotence ==
    (cmd = "backfill" /\ repeatRun) => (inserts = <<>> /\ db = dbAtStart)

\* C1 witness: the second run has ended ok, and the first run had written
\* the records (document repo) the second one found.
C1_Witness ==
    /\ cmd = "backfill" /\ repeatRun /\ pc = "idle" /\ exit = "ok"
    /\ requests # <<>>
    /\ \E d \in BagToSet(MappingStore(db)) : d.repo.bson = "document"

\* owner and name of a repo string "owner/name".
RepoRefOfString(s) ==
    LET parts == Split(s, "/")
    IN  IF Len(parts) >= 2 THEN <<parts[1], parts[2]>> ELSE <<s, <<>>>>

RepoRefOf(repo) ==
    IF repo.bson = "document" THEN <<repo.owner, repo.name>>
    ELSE RepoRefOfString(repo.str)

\* C2 (as claimed): the pairs a collectDiffs run selects are exactly the
\* (repo, prId) pairs of the mapping collection that no document of the diff
\* collection has, whatever the two collections hold.
C2_AntiJoinExact ==
    (cmd = "collectDiffs" /\ exit \in {"running", "ok", "panic:fetch", "panic:insert"})
    => {<<RepoRefOfString(p.repo), p.pr_id>> :
            p \in BagToSet(PRs) \cup BagToSet(prChs)}
       = {<<RepoRefOf(m.repo), m.pr_id>> : m \in BagToSet(dbAtStart["jira"])}
         \ {<<RepoRefOfString(g.repo), g.pr_id>> :
                g \in BagToSet(dbAtStart["github"])}

\* C3 (as claimed): a run in which a dev-status request failed does not
\* abort on it, asks for every other unmapped issue of the list, and writes
\* the records of their merged PRs.
C3_FailureIsolation ==
    (cmd = "backfill" /\ pc = "idle"
       /\ \E n \in 1..Len(requests) : requests[n][2].failed)
    => /\ exit # "panic:devstatus"
       /\ \A n \in 1..Len(bugs) :
            bugs[n] \notin alreadyMapped
            => \E m \in 1..Len(requests) : requests[m][1] = bugs[n]
       /\ exit = "ok" =>
            \A e \in MergedReturned :
                BagIn(RecordOfReturned(e), MappingStore(db))

\* The tracker reports no linked PR: the answer decodes and holds no PR.
ZeroLinkedPRs(answer) ==
    /\ ~answer.failed
    /\ \A k \in 1..Len(answer.detail) : answer.detail[k] = <<>>

\* C4 (as claimed): an answer without linked PRs never aborts the run; the
\* issue is skipped and nothing is inserted for it.
C4_NotFoundRecoverable ==
    cmd = "backfill" =>
      \A n \in 1..Len(requests) :
         ZeroLinkedPRs(requests[n][2])
         => /\ ~(exit = "panic:devstatus" /\ n = Len(requests))
            /\ requests[n][1] \notin DOMAIN newMappingsByIssueID
            /\ \A d \in BagToSet(Inserted) : d.issue_id # requests[n][1]

\* C5: the records a backfill run produces are one record per MERGED
\* LinkedPR it was answered, carrying the issue id of the request, and
\* nothing else.
C5_MergedOnly ==
    BackfillDone => Inserted = BagOfImage(MergedReturned, RecordOfReturned)

\* C5 witness: a run that was answered a MERGED and a non-MERGED PR for an
\* issue and has written its records.
C5_Witness ==
    /\ BackfillDone /\ exit = "ok" /\ inserts # <<>>
    /\ \E n \in 1..Len(requests) :
         \E i, j \in 1..Len(AnsweredPRs(requests[n][2])) :
            /\ AnsweredPRs(requests[n][2])[i].status = "MERGED"
            /\ AnsweredPRs(requests[n][2])[j].status # "MERGED"

\* The issue ids the Mapping Store d holds a record for.
MappedIssues(d) == {m.issue_id : m \in BagToSet(MappingStore(d))}

\* C6: a backfill run neither asks the dev-status endpoint about an issue
\* the Mapping Store held a record for when the run started, nor inserts a
\* record for such an issue.
C6_NoSecondLookup ==
    cmd = "backfill" =>
      /\ \A n \in 1..Len(requests) :
            requests[n][1] \notin MappedIssues(dbAtStart)
      /\ \A d \in BagToSet(Inserted) : d.issue_id \notin MappedIssues(dbAtStart)

\* C6 witness: a run has ended ok over an issue list with an issue that was
\* mapped by an earlier run and for which the tracker now reports a second
\* merged PR (43); no record of that PR is stored.
C6_Witness ==
    /\ cmd = "backfill" /\ pc = "idle" /\ exit = "ok"
    /\ \E n \in 1..Len(bugs) :
         /\ devStatus[bugs[n]] = DevResponse(<< <<PRg42, PRw43>> >>)
         /\ \E d \in BagToSet(MappingStore(dbAtStart)) :
               d.issue_id = bugs[n] /\ d.repo.bson = "document"
         /\ \A d \in BagToSet(MappingStore(db)) :
               d.issue_id = bugs[n] => d.pr_id # 43

\* C7: a collectDiffs run that aborts on a failed fetch has made no
\* InsertMany call and leaves the database as it was.
C7_FetchFailureWritesNothing ==
    (cmd = "collectDiffs" /\ exit = "panic:fetch")
    => (inserts = <<>> /\ db = dbAtStart)

\* C7 witness: the run aborted after the fetch of another PR had succeeded.
C7_Witness ==
    cmd = "collectDiffs" /\ exit = "panic:fetch" /\ prChs # EmptyBag

\* C8: a run that ends without new records has made no InsertMany call and
\* ended ok; a run that has new records has made exactly one call, with all
\* of them, on its own collection.
C8_NoWriteWithoutRecords ==
    /\ BackfillDone =>
         IF BagOfImage(MergedReturned, RecordOfReturned) = EmptyBag
         THEN inserts = <<>> /\ exit = "ok"
         ELSE /\ Len(inserts) = 1
              /\ inserts[1].coll = jiraCollName
              /\ inserts[1].docs = BagOfImage(MergedReturned, RecordOfReturned)
    /\ (cmd = "collectDiffs" /\ pc = "idle" /\ exit \in {"ok", "panic:insert"}) =>
         IF Unmatched(dbAtStart["jira"], dbAtStart["github"]) = {}
         THEN inserts = <<>> /\ exit = "ok"
         ELSE /\ Len(inserts) = 1
              /\ inserts[1].coll = "github"
              /\ inserts[1].docs = prChs
              /\ BagCardinality(prChs)
                   = Cardinality(Unmatched(dbAtStart["jira"], dbAtStart["github"]))

\* C8 witness: a collectDiffs run over a mapping collection whose PRs all
\* have their diff record ends ok without a write.
C8_Witness ==
    /\ cmd = "collectDiffs" /\ pc = "idle" /\ exit = "ok" /\ inserts = <<>>
    /\ db["jira"] # EmptyBag /\ db["github"] # EmptyBag

\* C9 (as claimed): the diff collection holds at most one document for
\* each (repo, prId).
C9_OneDiffRecordPerPR ==
    \A g \in BagToSet(db["github"]) :
       /\ CopiesIn(g, db["github"]) = 1
       /\ \A h \in BagToSet(db["github"]) :
            (h.repo = g.repo /\ h.pr_id = g.pr_id) => h = g

\* C10 (as claimed): within a backfill run no issue id is asked for twice,
\* and none that alreadyMapped holds.
C10_SingleLookup ==
    cmd = "backfill" =>
      /\ \A m, n \in 1..Len(requests) :
            requests[m][1] = requests[n][1] => m = n
      /\ \A n \in 1..Len(requests) : requests[n][1] \notin alreadyMapped

\* C11 (as claimed): every document of the diff collection lists all changed
\* files of its PR, in the order of the PR-files endpoint.
C11_CompletePayload ==
    \A g \in BagToSet(db["github"]) :
       g.changes = [i \in 1..Len(GitHubFiles(g.pr_id)) |->
                      change(GitHubFiles(g.pr_id)[i])]

\* C12 (as claimed): a backfill run that comes to convert a MERGED PR whose
\* tracker id has no parseable number after its prefix aborts and leaves the
\* database as it was.
C12_UnparseableIdAborts ==
    (cmd = "backfill" /\ pc = "idle" /\ exit # "panic:devstatus"
       /\ \E k \in DOMAIN newMappingsByIssueID :
            \E i \in 1..Len(newMappingsByIssueID[k]) :
               LET pr == newMappingsByIssueID[k][i]
               IN  /\ pr.status = "MERGED"
                   /\ Len(pr.id) >= 1
                   /\ Atoi(Tail(pr.id)).err)
    => (exit # "ok" /\ db = dbAtStart)

\* C13 (as claimed): every record of the Mapping Store has a repo with a
\* non-empty owner and a non-empty name.
C13_RepoRefNonEmpty ==
    \A d \in BagToSet(MappingStore(db)) :
       RepoRefOf(d.repo)[1] # <<>> /\ RepoRefOf(d.repo)[2] # <<>>

\* C14: a collectDiffs run that follows backfill runs and meets no failure of
\* the store, of a fetch or of the insert reads the records backfill wrote
\* and ends normally, and then every record backfill wrote (the ones whose
\* repo is a document) has a diff record with the same owner, name and
\* pr_id.  Stated for the configuration in which backfill writes into the
\* collection collectDiffs reads.
C14_BackfillThenEnrich ==
    (/\ jiraCollName = jiraColl
     /\ cmd = "collectDiffs" /\ pc = "idle"
     /\ exit \notin {"fatal:store", "panic:fetch", "panic:insert"})
    => /\ exit = "ok"
       /\ \A m \in BagToSet(MappingStore(dbAtStart)) :
             m.repo.bson = "document"
             => \E g \in BagToSet(db["github"]) :
                   /\ g.pr_id = m.pr_id
                   /\ RepoRefOfString(g.repo) = RepoRefOf(m.repo)

\* C15: the documents a backfill run inserted are in the collection
\* collectDiffs reads its PR references from, whatever the configured name
\* of the mapping collection is.
C15_SameMappingStore ==
    (cmd = "backfill" /\ pc = "idle" /\ exit = "ok" /\ inserts # <<>>)
    => /\ inserts[1].coll = jiraColl
       /\ \A d \in BagToSet(Inserted) : d \in BagToSet(db[jiraColl])

====
